---- MODULE Spec2Model ----
(***************************************************************************)
(* smartz-sms-server: the coin purchase saga (POST /api/getNumber) and the *)
(* payment credit (POST /api/verify-payment) of the server, in each of the *)
(* versions of server.js the repository holds.  Every request handler is   *)
(* an async function; it is cut into one action per await, so that the     *)
(* handlers of concurrent requests interleave exactly at their awaits.     *)
(***************************************************************************)
EXTENDS Integers, FiniteSets, Sequences, TLC

\* ---------------------------------------------------------------- bounds
\* Number of HTTP requests served in one run (each may overlap the others).
NumReq == 2
\* Base prices (whole provider units) quoted in the runs of the pricing
\* rules: 1..MaxLowBase, and MinBandBase..MaxBandBase around the 5 dollar band.
MaxLowBase == 60
MinBandBase == 445
MaxBandBase == 465

\* ------------------------------------------------------ program constants
NGN_PER_COIN == 15
KOBO_PER_NGN == 100
costOfNumber == 50
priceInCoins == 50
fixedCoinsToAdd == 1000
\* PROFIT_MARGIN, in tenths: 1.4 (part_002) and 1.5 (part_000, server.js)
PROFIT_MARGIN_14 == 14
PROFIT_MARGIN_15 == 15
\* part_001: the cross-currency rule, RUB -> USD in thousandths (0.011)
RUB_TO_USD_RATE_MILLI == 11
USD_TO_NGN_CONVERSION_RATE == 1500
FIXED_PROFIT_NGN == 1500
PROMO_PRICE_NGN == 10000

\* ------------------------------------------------------------- the world
Reqs == 1..NumReq

\* The versions of the server held in the repository:
\*   "fixed"  server.js:1-176        fixed price, debit first, add_coins rpc
\*   "m14"    part_002:124-338       margin 1.4,  debit first, read-then-write credit
\*   "m15a"   part_000               margin 1.5,  acquire first, checked credit write
\*   "m15b"   server.js:178-319      margin 1.5,  acquire first, unchecked credit write
\*   "chain"  part_001               RUB->USD->NGN->coins, acquire first
Variants == {"fixed", "m14", "m15a", "m15b", "chain"}

DebitFirst(v) == v \in {"fixed", "m14"}
AcquireFirst(v) == v \in {"m15a", "m15b", "chain"}

\* Rows of the profiles table, and the user ids a request may carry:
\* a row's id, an id with no row ("ghost"), or none ("").
Accounts == {"u1", "u2"}
UserIds == Accounts \cup {"ghost", ""}
Services == {"", "wa"}
Countries == {"", "ng"}

\* The base price the provider quotes (provider units) in the runs of the
\* purchase and credit handlers.
BasePrices == {30}

\* The base prices the provider quotes in the runs of the pricing rules.
QuoteBasePrices == (1..MaxLowBase) \cup (MinBandBase..MaxBandBase)

\* What the payment gateway holds for each reference: Paystack's
\* transaction/verify answers the same for the same reference every time.
\* amount is in minor units (kobo).
References == {"", "refBig", "refMid", "refTiny", "refFailed"}
Paystack(reference) ==
    CASE reference = "refBig"    -> [status |-> TRUE, dataStatus |-> "success", amount |-> 2250000]
      [] reference = "refMid"    -> [status |-> TRUE, dataStatus |-> "success", amount |-> 22500]
      [] reference = "refTiny"   -> [status |-> TRUE, dataStatus |-> "success", amount |-> 10]
      [] reference = "refFailed" -> [status |-> TRUE, dataStatus |-> "failed", amount |-> 22500]
      [] OTHER                   -> [status |-> FALSE, dataStatus |-> "none", amount |-> 0]

\* --------------------------------------------------------- pure functions
\* Math.ceil(n / d) for integers n >= 0, d > 0
CeilDiv(n, d) == (n + d - 1) \div d

\* The tests of part_001:60 on basePriceInRub * 0.011, for a whole number of
\* roubles.  The double 0.011 lies below 11/1000, so 450 * 0.011 evaluates to
\* 4.949999999999999 and fails ">= 4.95": the lower test is strict on the
\* exact product.  No whole number of roubles gives exactly 5.05.
InPromoBand(basePriceInRub) ==
    /\ basePriceInRub * RUB_TO_USD_RATE_MILLI > 4950
    /\ basePriceInRub * RUB_TO_USD_RATE_MILLI <= 5050

\* calculateFinalPriceInCoins without the special rule of part_001:60-63.
calculateWithoutSpecialRule(basePriceInRub) ==
    CeilDiv(basePriceInRub * RUB_TO_USD_RATE_MILLI * USD_TO_NGN_CONVERSION_RATE
              + FIXED_PROFIT_NGN * 1000,
            NGN_PER_COIN * 1000)

\* part_001:56-74
calculateFinalPriceInCoins(basePriceInRub) ==
    IF InPromoBand(basePriceInRub)
    THEN CeilDiv(PROMO_PRICE_NGN, NGN_PER_COIN)
    ELSE CeilDiv(basePriceInRub * RUB_TO_USD_RATE_MILLI * USD_TO_NGN_CONVERSION_RATE
                   + FIXED_PROFIT_NGN * 1000,
                 NGN_PER_COIN * 1000)

\* The price a purchase is charged, per version.
FinalPrice(v, base) ==
    CASE v = "fixed" -> costOfNumber
      [] v = "m14"   -> CeilDiv(base * PROFIT_MARGIN_14, 10)
      [] v = "chain" -> calculateFinalPriceInCoins(base)
      [] OTHER       -> CeilDiv(base * PROFIT_MARGIN_15, 10)

\* QuotePrice rounding down where the code rounds up.
QuotePriceFloored(v, base) ==
    CASE v = "fixed" -> priceInCoins
      [] v = "m14"   -> (base * PROFIT_MARGIN_14) \div 10
      [] v = "chain" -> calculateFinalPriceInCoins(base)
      [] OTHER       -> (base * PROFIT_MARGIN_15) \div 10

\* The price GET /api/getPrice answers, per version: the placeholder of
\* server.js:70, Math.ceil(base * PROFIT_MARGIN), or the cross-currency rule.
QuotePrice(v, base) ==
    CASE v = "fixed" -> priceInCoins
      [] v = "m14"   -> CeilDiv(base * PROFIT_MARGIN_14, 10)
      [] v = "chain" -> calculateFinalPriceInCoins(base)
      [] OTHER       -> CeilDiv(base * PROFIT_MARGIN_15, 10)

\* CoinsToAdd with the amount taken for naira: no division by 100.
CoinsToAddOfMinorUnits(v, amount) ==
    IF v = "fixed" THEN fixedCoinsToAdd
    ELSE amount \div NGN_PER_COIN

\* Math.floor((data.amount / 100) / NGN_PER_COIN): the two divisions are
\* exact enough that the floor is the floor of amount / 1500.
CoinsToAdd(v, amount) ==
    IF v = "fixed" THEN fixedCoinsToAdd
    ELSE amount \div (KOBO_PER_NGN * NGN_PER_COIN)

\* ------------------------------------------------------------------ state
VARIABLES
    variant,    \* which version of the server is deployed
    catalogue,  \* the provider's base price for the service in the country
    balance,    \* profiles.coins, per row
    initial,    \* the balances at start (history)
    req         \* per request: the handler's locals and position

vars == <<variant, catalogue, balance, initial, req>>

Idle ==
    [ kind |-> "none", pc |-> "idle",
      service |-> "", country |-> "", userId |-> "", reference |-> "",
      orderId |-> "",
      finalPrice |-> 0, profileCoins |-> 0, coinsToAdd |-> 0,
      status |-> 0, outcome |-> "none",
      \* history of the request
      gateway |-> "none",     \* the gateway's answer: throw, statusFalse, or data.status
      priced |-> "none",      \* the provider's price answer: price, NA, throw
      provider |-> "none",    \* how the provider's getNumber call ended
      sms |-> "none",         \* the provider's get_sms answer
      debited |-> FALSE,      \* its debit write was applied
      refunded |-> "none",    \* its refund write: none, applied, failed
      credited |-> FALSE,     \* its credit write was applied
      storeCalls |-> 0,       \* account store calls it made
      lookup |-> "none",      \* its profile select: none, ok, error
      writeError |-> "none",  \* its write the store answered with an error
      responses |-> 0,        \* responses it has sent
      disturbed |-> FALSE,    \* another request wrote its account meanwhile
      after |-> {},           \* the requests that had ended when it started
      startCoins |-> 0,       \* its account's balance when it arrived
      endCoins |-> 0 ]        \* its account's balance when it was answered

InFlight(q) == req[q].pc \notin {"idle", "done"}

\* Initial balances make "balance equals exactly one price" one of the cases.
InitBalances(v) == {0, FinalPrice(v, 30), 2 * FinalPrice(v, 30)}

\* The balance of row u (0 for an id with no row).
CoinsOf(u) == IF u \in Accounts THEN balance[u] ELSE 0

Init ==
    /\ variant \in Variants
    /\ catalogue \in BasePrices
    /\ balance \in [Accounts -> InitBalances(variant)]
    /\ balance["u2"] = FinalPrice(variant, 30)
    /\ initial = balance
    /\ req = [r \in Reqs |-> Idle]

\* The handler of r moves on, without writing the store.
Step(r, rec) == req' = [req EXCEPT ![r] = rec]

\* A handler that ends without res.json(...): no response is sent.
EndWithoutResponse(rec, code, what) ==
    [rec EXCEPT !.pc = "done", !.status = code, !.outcome = what,
                !.endCoins = CoinsOf(rec.userId)]

\* res.status(code).json(...): the handler of r ends.
Respond(rec, code, what) ==
    [rec EXCEPT !.pc = "done", !.status = code, !.outcome = what,
                !.responses = @ + 1,
                !.endCoins = CoinsOf(rec.userId)]

\* The handler of r moves on and the store applies its write of coins to row u:
\* every other request in flight on u has seen a write in between.
StepWrite(r, rec, u, coins) ==
    /\ balance' = [balance EXCEPT ![u] = coins]
    /\ req' = [q \in Reqs |->
                 IF q = r
                 THEN IF rec.pc = "done" THEN [rec EXCEPT !.endCoins = coins] ELSE rec
                 ELSE IF InFlight(q) /\ req[q].userId = u
                      THEN [req[q] EXCEPT !.disturbed = TRUE]
                      ELSE req[q]]

\* ------------------------------------------------------ the account store
\* supabaseAdmin.from('profiles').select('coins').eq('id', u).single():
\* the row's coins, or an error (no such row, or the store failed).
SelectCoins(u) ==
    (IF u \in Accounts THEN {[error |-> FALSE, coins |-> balance[u]]} ELSE {})
      \cup {[error |-> TRUE, coins |-> 0]}

\* supabaseAdmin.from('profiles').update({coins}).eq('id', u): the store
\* applies the write (TRUE) or answers with an error (FALSE).
UpdateResults == {TRUE, FALSE}

\* --------------------------------------------------- the provider's answers
\* get_service_price / getPrices: the price of the catalogue, no price for
\* the combination, or a thrown transport error.
PriceAnswers ==
    {[kind |-> "price", price |-> catalogue],
     [kind |-> "NA", price |-> 0], [kind |-> "throw", price |-> 0]}
NumberAnswers == {"ok", "fail", "throw"}

\* ------------------------------------------------ POST /api/getNumber
\* The fields the version requires of the body (server.js:81 checks userId
\* alone; the others check all three).
MissingFields(v, service, country, userId) ==
    IF v = "fixed" THEN userId = ""
    ELSE service = "" \/ country = "" \/ userId = ""

ValidationStatus(v) == IF v = "fixed" THEN 401 ELSE 400

\* The request arrives: the body is destructured and validated.
GN_Validate(r) ==
    /\ req[r].pc = "idle"
    /\ \E service \in Services, country \in Countries, userId \in UserIds :
         LET rec == [req[r] EXCEPT !.kind = "getNumber",
                        !.service = service, !.country = country, !.userId = userId,
                        !.after = {q \in Reqs : req[q].pc = "done"},
                        !.startCoins = CoinsOf(userId)]
         IN  IF MissingFields(variant, service, country, userId)
             THEN Step(r, Respond(rec, ValidationStatus(variant), "validation"))
             ELSE IF variant = "fixed"
                  THEN Step(r, [rec EXCEPT !.pc = "profile", !.finalPrice = costOfNumber])
                  ELSE Step(r, [rec EXCEPT !.pc = "price"])
    /\ UNCHANGED <<variant, catalogue, balance, initial>>

\* await axios.get(get_service_price / getPrices) and the price computed
\* from it.  With no price the debit-first version answers 404 and the
\* acquire-first versions throw into their catch (500).
GN_Price(r) ==
    /\ req[r].kind = "getNumber" /\ req[r].pc = "price"
    /\ \E answer \in PriceAnswers :
         LET rec == [req[r] EXCEPT !.priced = answer.kind] IN
         CASE answer.kind = "throw" -> Step(r, Respond(rec, 500, "error"))
           [] answer.kind = "NA" ->
                IF DebitFirst(variant)
                THEN Step(r, Respond(rec, 404, "notAvailable"))
                ELSE Step(r, Respond(rec, 500, "error"))
           [] OTHER ->
                Step(r, [rec EXCEPT !.pc = "profile",
                                    !.finalPrice = FinalPrice(variant, answer.price)])
    /\ UNCHANGED <<variant, catalogue, balance, initial>>

\* ProfileMissing with the test left out.
ProfileMissingUntested(profile) == FALSE

\* profileError || !profile (with .single() an error leaves data null).
ProfileMissing(profile) == profile.error

\* What the version does when the profile could not be read.
NoProfileStatus(v) ==
    CASE v \in {"fixed", "m14"}  -> 404
      [] v = "m15a"              -> 500
      [] OTHER                   -> 402

NoProfileOutcome(v) ==
    CASE v \in {"fixed", "m14"}  -> "notFound"
      [] v = "m15a"              -> "error"
      [] OTHER                   -> "insufficient"

\* Insufficient with the balance test left out.
InsufficientUntested(coins, price) == FALSE

\* The balance test: the purchase goes on only with coins >= price.
Insufficient(coins, price) == coins < price

\* await select('coins') and the balance test that follows it.
GN_Profile(r) ==
    /\ req[r].kind = "getNumber" /\ req[r].pc = "profile"
    /\ \E profile \in SelectCoins(req[r].userId) :
         LET rec == [req[r] EXCEPT !.storeCalls = @ + 1,
                        !.lookup = IF profile.error THEN "error" ELSE "ok"] IN
         IF ProfileMissing(profile)
         THEN Step(r, Respond(rec, NoProfileStatus(variant), NoProfileOutcome(variant)))
         ELSE IF Insufficient(profile.coins, rec.finalPrice)
              THEN Step(r, Respond([rec EXCEPT !.profileCoins = profile.coins],
                                   402, "insufficient"))
              ELSE Step(r, [rec EXCEPT !.profileCoins = profile.coins,
                                       !.pc = IF DebitFirst(variant) THEN "debit"
                                              ELSE "acquire"])
    /\ UNCHANGED <<variant, catalogue, balance, initial>>

\* const newBalance = profile.coins - finalPrice
NewBalance(rec) == rec.profileCoins - rec.finalPrice

\* ChecksDebitWrite with updateError never read.
ChecksDebitWriteNever(v) == FALSE

\* The versions that read the error of the debit write (updateError): the
\* debit-first ones.
ChecksDebitWrite(v) == v \in {"fixed", "m14"}

\* Debit first: await update({coins: newBalance}); an update error is thrown
\* into the catch, before the provider is asked.
DF_Debit(r) ==
    /\ DebitFirst(variant)
    /\ req[r].kind = "getNumber" /\ req[r].pc = "debit"
    /\ \E applied \in UpdateResults :
         LET rec == [req[r] EXCEPT !.storeCalls = @ + 1] IN
         IF applied
         THEN StepWrite(r, [rec EXCEPT !.debited = TRUE, !.pc = "acquire"],
                        rec.userId, NewBalance(rec))
         ELSE /\ UNCHANGED balance
              /\ IF ChecksDebitWrite(variant)
                 THEN Step(r, Respond([rec EXCEPT !.writeError = "debit"], 500, "error"))
                 ELSE Step(r, [rec EXCEPT !.writeError = "debit", !.pc = "acquire"])
    /\ UNCHANGED <<variant, catalogue, initial>>

\* Debit first: await axios.get(getNumber).  ACCESS_NUMBER ends the request
\* with the number; any other answer goes to the refund; a thrown transport
\* error goes to the catch.
DF_Acquire(r) ==
    /\ DebitFirst(variant)
    /\ req[r].kind = "getNumber" /\ req[r].pc = "acquire"
    /\ \E answer \in NumberAnswers :
         LET rec == [req[r] EXCEPT !.provider = answer] IN
         CASE answer = "ok"    -> Step(r, Respond(rec, 200, "number"))
           [] answer = "fail"  -> Step(r, [rec EXCEPT !.pc = "refund"])
           [] OTHER            -> Step(r, Respond(rec, 500, "error"))
    /\ UNCHANGED <<variant, catalogue, balance, initial>>

\* RefundCoins writing the debited balance again.
RefundCoinsDebited(rec) == rec.profileCoins - rec.finalPrice

\* The coins the refund writes: update({ coins: profile.coins }).
RefundCoins(rec) == rec.profileCoins

\* Debit first: await update({coins: profile.coins}), its result unread, then
\* the failure response (server.js:125) or the throw into the catch
\* (part_002:269).
DF_Refund(r) ==
    /\ DebitFirst(variant)
    /\ req[r].kind = "getNumber" /\ req[r].pc = "refund"
    /\ \E applied \in UpdateResults :
         LET rec == [req[r] EXCEPT !.storeCalls = @ + 1] IN
         IF applied
         THEN StepWrite(r, Respond([rec EXCEPT !.refunded = "applied"], 500, "error"),
                        rec.userId, RefundCoins(rec))
         ELSE /\ Step(r, Respond([rec EXCEPT !.refunded = "failed",
                                                !.writeError = "refund"], 500, "error"))
              /\ UNCHANGED balance
    /\ UNCHANGED <<variant, catalogue, initial>>

\* Acquire first: await axios.get(get_number); response 1 goes on to the
\* debit, anything else is thrown into the catch.
AF_Acquire(r) ==
    /\ AcquireFirst(variant)
    /\ req[r].kind = "getNumber" /\ req[r].pc = "acquire"
    /\ \E answer \in NumberAnswers :
         LET rec == [req[r] EXCEPT !.provider = answer] IN
         IF answer = "ok"
         THEN Step(r, [rec EXCEPT !.pc = "debit"])
         ELSE Step(r, Respond(rec, 500, "error"))
    /\ UNCHANGED <<variant, catalogue, balance, initial>>

\* Acquire first: await update({coins: newBalance}), its result unread, then
\* the number is sent.
AF_Debit(r) ==
    /\ AcquireFirst(variant)
    /\ req[r].kind = "getNumber" /\ req[r].pc = "debit"
    /\ \E applied \in UpdateResults :
         LET rec == [req[r] EXCEPT !.storeCalls = @ + 1] IN
         IF applied
         THEN StepWrite(r, Respond([rec EXCEPT !.debited = TRUE], 200, "number"),
                        rec.userId, NewBalance(rec))
         ELSE /\ Step(r, Respond([rec EXCEPT !.writeError = "debit"], 200, "number"))
              /\ UNCHANGED balance
    /\ UNCHANGED <<variant, catalogue, initial>>

GetNumber(r) ==
    \/ GN_Validate(r)
    \/ GN_Price(r)
    \/ GN_Profile(r)
    \/ DF_Debit(r)
    \/ DF_Acquire(r)
    \/ DF_Refund(r)
    \/ AF_Acquire(r)
    \/ AF_Debit(r)

\* ------------------------------------------------ GET /api/getPrice
\* The query is destructured and validated.  server.js:62-75 has no await:
\* it answers the placeholder price at once.
GP_Validate(r) ==
    /\ req[r].pc = "idle"
    /\ \E service \in Services, country \in Countries :
         LET rec == [req[r] EXCEPT !.kind = "getPrice",
                        !.service = service, !.country = country,
                        !.after = {q \in Reqs : req[q].pc = "done"}]
         IN  IF service = "" \/ country = ""
             THEN Step(r, Respond(rec, 400, "validation"))
             ELSE IF variant = "fixed"
                  THEN Step(r, Respond([rec EXCEPT !.finalPrice = QuotePrice(variant, 0)],
                                       200, "price"))
                  ELSE Step(r, [rec EXCEPT !.pc = "quote"])
    /\ UNCHANGED <<variant, catalogue, balance, initial>>

\* await axios.get(get_service_price / getPrices): 404 with no price, the
\* marked-up price otherwise, 500 when the call threw.
GP_Quote(r) ==
    /\ req[r].kind = "getPrice" /\ req[r].pc = "quote"
    /\ \E answer \in PriceAnswers :
         LET rec == [req[r] EXCEPT !.priced = answer.kind] IN
         CASE answer.kind = "throw" -> Step(r, Respond(rec, 500, "error"))
           [] answer.kind = "NA"    -> Step(r, Respond(rec, 404, "notAvailable"))
           [] OTHER ->
                Step(r, Respond([rec EXCEPT !.finalPrice = QuotePrice(variant, answer.price)],
                                200, "price"))
    /\ UNCHANGED <<variant, catalogue, balance, initial>>

GetPrice(r) ==
    \/ GP_Validate(r)
    \/ GP_Quote(r)

\* ------------------------------------------------ GET /api/getStatus
\* The versions that have the route (server.js:275, part_001:135).
HasStatusRoute(v) == v \in {"m15b", "chain"}

OrderIds == {"", "o1"}

\* get_sms: response "1" (the SMS has arrived), "2" (still waiting), any
\* other answer, or a thrown transport error.
SmsAnswers == {"received", "waiting", "failed", "throw"}

\* StatusOutcome reporting a code whatever the provider answered.
StatusOutcomeAlwaysCode(answer) == "code"

\* What the handler reports for the provider's answer: SUCCESS with the
\* code, WAITING, or the catch's failure.
StatusOutcome(answer) ==
    CASE answer = "received" -> "code"
      [] answer = "waiting"  -> "waiting"
      [] OTHER               -> "error"

GS_Validate(r) ==
    /\ HasStatusRoute(variant)
    /\ req[r].pc = "idle"
    /\ \E orderId \in OrderIds :
         LET rec == [req[r] EXCEPT !.kind = "getStatus", !.orderId = orderId,
                        !.after = {q \in Reqs : req[q].pc = "done"}]
         IN  IF orderId = ""
             THEN Step(r, Respond(rec, 400, "validation"))
             ELSE Step(r, [rec EXCEPT !.pc = "poll"])
    /\ UNCHANGED <<variant, catalogue, balance, initial>>

\* await axios.get(get_sms) and the answer sent.
GS_Poll(r) ==
    /\ req[r].kind = "getStatus" /\ req[r].pc = "poll"
    /\ \E answer \in SmsAnswers :
         LET rec == [req[r] EXCEPT !.sms = answer]
             what == StatusOutcome(answer)
         IN  Step(r, Respond(rec, IF what = "error" THEN 500 ELSE 200, what))
    /\ UNCHANGED <<variant, catalogue, balance, initial>>

GetStatus(r) ==
    \/ GS_Validate(r)
    \/ GS_Poll(r)

\* ------------------------------------------------ POST /api/verify-payment
\* server.js:138 checks userId alone; the others check reference and userId.
MissingPaymentFields(v, reference, userId) ==
    IF v = "fixed" THEN userId = ""
    ELSE reference = "" \/ userId = ""

\* axios.get(transaction/verify/reference): the gateway's answer for the
\* reference, or a thrown error (transport failure, or the gateway's 4xx for
\* a reference it does not know).
VerifyAnswers(reference) ==
    {[thrown |-> FALSE, body |-> Paystack(reference)],
     [thrown |-> TRUE, body |-> Paystack("")]}

\* What the request keeps of the answer, for the record.
AnswerKind(answer) ==
    IF answer.thrown THEN "throw"
    ELSE IF ~answer.body.status THEN "statusFalse"
    ELSE answer.body.dataStatus

\* Verified without the test of data.status.
VerifiedByStatusAlone(body) == body.status

\* status && data.status === 'success'
Verified(body) == body.status /\ body.dataStatus = "success"

\* TooSmall with the test left out.
TooSmallUntested(coins) == FALSE

\* if (coinsToAdd < 1) return res.status(400)
TooSmall(coins) == coins < 1

\* The versions that read the error of the credit write (updateError).
ChecksCreditWrite(v) == v \in {"m14", "m15a"}

VP_Validate(r) ==
    /\ req[r].pc = "idle"
    /\ \E reference \in References, userId \in UserIds :
         LET rec == [req[r] EXCEPT !.kind = "verify",
                        !.reference = reference, !.userId = userId,
                        !.after = {q \in Reqs : req[q].pc = "done"},
                        !.startCoins = CoinsOf(userId)]
         IN  IF MissingPaymentFields(variant, reference, userId)
             THEN Step(r, Respond(rec, ValidationStatus(variant), "validation"))
             ELSE Step(r, [rec EXCEPT !.pc = "verify"])
    /\ UNCHANGED <<variant, catalogue, balance, initial>>

\* await axios.get(verify), the verification test, and coinsToAdd.
VP_Verify(r) ==
    /\ req[r].kind = "verify" /\ req[r].pc = "verify"
    /\ \E answer \in VerifyAnswers(req[r].reference) :
         LET got == [req[r] EXCEPT !.gateway = AnswerKind(answer)] IN
         IF answer.thrown
         THEN Step(r, Respond(got, 500, "error"))
         ELSE IF ~Verified(answer.body)
         THEN Step(r, Respond(got, 400, "verifyFailed"))
         ELSE LET rec == [got EXCEPT
                             !.coinsToAdd = CoinsToAdd(variant, answer.body.amount)]
              IN  IF variant = "fixed"
                  THEN Step(r, [rec EXCEPT !.pc = "rpc"])
                  ELSE IF TooSmall(rec.coinsToAdd)
                       THEN Step(r, Respond(rec, 400, "tooSmall"))
                       ELSE Step(r, [rec EXCEPT !.pc = "profile"])
    /\ UNCHANGED <<variant, catalogue, balance, initial>>

\* await select('coins'): without a profile the request ends with 404.
VP_Profile(r) ==
    /\ req[r].kind = "verify" /\ req[r].pc = "profile"
    /\ \E profile \in SelectCoins(req[r].userId) :
         LET rec == [req[r] EXCEPT !.storeCalls = @ + 1,
                        !.lookup = IF profile.error THEN "error" ELSE "ok"] IN
         IF ProfileMissing(profile)
         THEN Step(r, Respond(rec, 404, "notFound"))
         ELSE Step(r, [rec EXCEPT !.profileCoins = profile.coins, !.pc = "credit"])
    /\ UNCHANGED <<variant, catalogue, balance, initial>>

\* const newTotalCoins = profile.coins + coinsToAdd
NewTotalCoins(rec) == rec.profileCoins + rec.coinsToAdd

\* await update({coins: newTotalCoins}); part_002 and part_000 throw on an
\* update error, the others do not read it.
VP_Credit(r) ==
    /\ req[r].kind = "verify" /\ req[r].pc = "credit"
    /\ \E applied \in UpdateResults :
         LET rec == [req[r] EXCEPT !.storeCalls = @ + 1] IN
         IF applied
         THEN StepWrite(r, Respond([rec EXCEPT !.credited = TRUE], 200, "credited"),
                        rec.userId, NewTotalCoins(rec))
         ELSE /\ UNCHANGED balance
              /\ IF ChecksCreditWrite(variant)
                 THEN Step(r, Respond([rec EXCEPT !.writeError = "credit"], 500, "error"))
                 ELSE Step(r, Respond([rec EXCEPT !.writeError = "credit"], 200, "credited"))
    /\ UNCHANGED <<variant, catalogue, initial>>

\* The stored procedure add_coins(user_id, amount): one atomic increment of
\* the row's coins; for an id with no row it changes nothing.
AddCoins(u, amount) ==
    IF u \in Accounts THEN [balance EXCEPT ![u] = @ + amount] ELSE balance

\* await supabaseAdmin.rpc('add_coins', ...): 500 on its error.
VP_Rpc(r) ==
    /\ req[r].kind = "verify" /\ req[r].pc = "rpc"
    /\ \E applied \in UpdateResults :
         LET rec == [req[r] EXCEPT !.storeCalls = @ + 1] IN
         IF applied /\ rec.userId \in Accounts
         THEN StepWrite(r, Respond([rec EXCEPT !.credited = TRUE], 200, "credited"),
                        rec.userId, AddCoins(rec.userId, rec.coinsToAdd)[rec.userId])
         ELSE /\ UNCHANGED balance
              /\ IF applied
                 THEN Step(r, Respond(rec, 200, "credited"))
                 ELSE Step(r, Respond([rec EXCEPT !.writeError = "credit"], 500, "error"))
    /\ UNCHANGED <<variant, catalogue, initial>>

VerifyPayment(r) ==
    \/ VP_Validate(r)
    \/ VP_Verify(r)
    \/ VP_Profile(r)
    \/ VP_Credit(r)
    \/ VP_Rpc(r)

Next ==
    \E r \in Reqs : GetPrice(r) \/ GetNumber(r) \/ GetStatus(r) \/ VerifyPayment(r)

Spec == Init /\ [][Next]_vars

\* ------------------------------------------------- the response's message
\* Where the message of the response of an answered request comes from: a
\* string literal of the handler ("literal"), text of the provider's answer
\* ("provider"), or the message of a thrown transport error ("transport").
\* The catch of the purchase handlers of part_000, part_001, part_002 and
\* server.js:271, and of the status handlers, sends error.message; the
\* others send a literal.  server.js:125 sends the provider's answer.
MessageSource(v, rec) ==
    CASE rec.kind = "getNumber" /\ rec.provider = "fail" -> "provider"
      [] rec.kind = "getNumber" /\ v # "fixed"
           /\ (rec.provider = "throw" \/ rec.priced = "throw") -> "transport"
      [] rec.kind = "getStatus" /\ rec.sms = "failed" -> "provider"
      [] rec.kind = "getStatus" /\ rec.sms = "throw" -> "transport"
      [] OTHER -> "literal"

\* ------------------------------------------------------ the pricing rules
\* The quote handler and the pricing steps of the purchase handler, over the
\* base prices of QuoteBasePrices.
InitQuote ==
    /\ variant \in Variants
    /\ catalogue \in QuoteBasePrices
    /\ balance = [u \in Accounts |-> FinalPrice(variant, catalogue)]
    /\ initial = balance
    /\ req = [r \in Reqs |-> Idle]

NextQuote == \E r \in Reqs : GetPrice(r) \/ GN_Validate(r) \/ GN_Price(r)

PriceSpec == InitQuote /\ [][NextQuote]_vars

\* ================================================================ claims
Done(r) == req[r].pc = "done"
Purchase(r) == req[r].kind = "getNumber"
Payment(r) == req[r].kind = "verify"
GotNumber(r) == Done(r) /\ req[r].outcome = "number"

\* r1 had been answered when r2 arrived.
Sequential(r1, r2) == r1 \in req[r2].after

\* Both have arrived and neither had been answered when the other arrived.
Overlap(r1, r2) ==
    /\ req[r1].pc # "idle" /\ req[r2].pc # "idle"
    /\ ~Sequential(r1, r2) /\ ~Sequential(r2, r1)

\* No request other than r1 and r2 has arrived.
OnlyThese(r1, r2) == \A q \in Reqs \ {r1, r2} : req[q].pc = "idle"

\* C1: two overlapping purchases on one account whose balance is exactly one
\* price never both obtain a number.
C1_NeverBothObtainNumber ==
    \A r1, r2 \in Reqs :
        ( /\ r1 # r2 /\ Purchase(r1) /\ Purchase(r2)
          /\ Overlap(r1, r2) /\ OnlyThese(r1, r2)
          /\ req[r1].userId = req[r2].userId
          /\ req[r1].userId \in Accounts
          /\ req[r1].finalPrice = req[r2].finalPrice
          /\ req[r1].finalPrice > 0
          /\ initial[req[r1].userId] = req[r1].finalPrice )
        => ~(GotNumber(r1) /\ GotNumber(r2))

\* The versions whose credit is all in the handler: select, then update.
ReadThenWriteCredit == variant # "fixed"

\* C2: a payment-credit request repeated after the first one was answered,
\* with the same reference and account, changes no balance: the balance after
\* the replay is the balance after the first call.  (Stated for the versions
\* that credit by select and update; add_coins credits every call as well.)
C2_ReplayCreditsNothing ==
    \A r1, r2 \in Reqs :
        ( /\ r1 # r2 /\ Payment(r1) /\ Payment(r2)
          /\ ReadThenWriteCredit
          /\ Done(r1) /\ Done(r2)
          /\ Sequential(r1, r2) /\ OnlyThese(r1, r2)
          /\ req[r1].reference = req[r2].reference
          /\ req[r1].userId = req[r2].userId
          /\ req[r1].credited )
        => /\ ~req[r2].credited
           /\ req[r2].endCoins = req[r1].endCoins

\* C3: two overlapping payment-credit requests with the same verified
\* reference raise the balance by the credit amount once in total.  (Stated
\* for the versions that credit by select and update; add_coins credits
\* every call as well.)
C3_ConcurrentCreditOnce ==
    \A r1, r2 \in Reqs :
        ( /\ r1 # r2 /\ Payment(r1) /\ Payment(r2)
          /\ ReadThenWriteCredit
          /\ Done(r1) /\ Done(r2)
          /\ Overlap(r1, r2) /\ OnlyThese(r1, r2)
          /\ req[r1].reference = req[r2].reference
          /\ req[r1].userId = req[r2].userId
          /\ req[r1].userId \in Accounts
          /\ req[r1].credited /\ req[r2].credited )
        => balance[req[r1].userId] = initial[req[r1].userId] + req[r1].coinsToAdd

\* The purchase r was debited, the provider then answered with an explicit
\* failure, and no other request wrote r's account while r was in flight.
FailedAfterDebit(r) ==
    /\ Purchase(r) /\ Done(r)
    /\ req[r].debited /\ req[r].provider = "fail"
    /\ ~req[r].disturbed

C5_RefundAfterTransportError ==
    \A r \in Reqs :
        (Purchase(r) /\ Done(r) /\ req[r].debited /\ req[r].provider = "throw")
        => req[r].refunded # "none"

\* C6: an applied refund write adds the reserved amount to the balance the
\* account has at that moment.
C6_RefundAddsReservedAmount ==
    [][ \A r \in Reqs :
          (req[r].pc = "refund" /\ req'[r].refunded = "applied")
          => balance'[req[r].userId] = balance[req[r].userId] + req[r].finalPrice
      ]_vars

\* C7: every stored balance is >= 0 in every reachable state.
C7_BalanceNonNegative == \A u \in Accounts : balance[u] >= 0

C7_Witness ==
    \E r1, r2 \in Reqs :
        /\ r1 # r2 /\ Purchase(r1) /\ Purchase(r2)
        /\ req[r1].debited /\ req[r2].debited
        /\ req[r1].userId = req[r2].userId
        /\ req[r1].disturbed
        /\ balance[req[r1].userId] = 0

\* C8: a write that lowers a balance is the debit write of a purchase and
\* lowers it by that purchase's price.
C8_DecreaseIsOnePrice ==
    [][ \A u \in Accounts :
          balance'[u] < balance[u]
          => \E r \in Reqs :
                /\ Purchase(r) /\ req[r].userId = u
                /\ req[r].pc = "debit" /\ req'[r].debited
                /\ balance[u] - balance'[u] = req[r].finalPrice
      ]_vars

\* C9: a payment-credit request whose gateway call threw or answered
\* not-verified has ended with a failure, made no account store call and
\* credited nothing.
C9_UnverifiedTouchesNoStore ==
    \A r \in Reqs :
        (Payment(r) /\ req[r].gateway \in {"throw", "statusFalse", "failed"})
        => /\ Done(r)
           /\ req[r].status \in {400, 500}
           /\ req[r].storeCalls = 0
           /\ ~req[r].credited
           /\ (~req[r].disturbed => req[r].endCoins = req[r].startCoins)

C9_Witness ==
    \E r \in Reqs :
        /\ Payment(r) /\ Done(r) /\ req[r].gateway = "failed"
        /\ req[r].userId \in Accounts

\* The verified amount (minor units) of r's reference.
AmountOf(r) == Paystack(req[r].reference).amount

C11_TooSmallTouchesNoStore ==
    \A r \in Reqs :
        ( /\ Payment(r) /\ req[r].gateway = "success"
          /\ \/ req[r].coinsToAdd < 1
             \/ (variant # "fixed" /\ AmountOf(r) < KOBO_PER_NGN * NGN_PER_COIN) )
        => /\ Done(r)
           /\ req[r].outcome = "tooSmall" /\ req[r].status = 400
           /\ req[r].storeCalls = 0
           /\ ~req[r].credited
           /\ (~req[r].disturbed => req[r].endCoins = req[r].startCoins)

C11_Witness ==
    \E r \in Reqs :
        /\ Payment(r) /\ Done(r) /\ req[r].gateway = "success"
        /\ AmountOf(r) = 10 /\ req[r].coinsToAdd = 0
        /\ req[r].outcome = "tooSmall"
        /\ req[r].userId \in Accounts
        /\ balance[req[r].userId] = initial[req[r].userId]

\* The purchase r has gone past its balance test.
PastBalanceTest(r) ==
    \/ req[r].pc \in {"debit", "acquire", "refund"}
    \/ req[r].provider # "none"
    \/ req[r].debited

\* C12: a purchase goes past its balance test only with a balance read that
\* covers the quoted price; one that ends with InsufficientFunds (402) has
\* made one store call, the read, issued no balance write and no provider
\* acquisition call, and leaves the balance it found unless another request
\* wrote it.
C12_InsufficientChangesNothing ==
    \A r \in Reqs :
        Purchase(r) =>
           /\ PastBalanceTest(r) => req[r].profileCoins >= req[r].finalPrice
           /\ req[r].outcome = "insufficient" =>
                 /\ Done(r) /\ req[r].status = 402
                 /\ req[r].storeCalls = 1
                 /\ ~req[r].debited /\ req[r].refunded = "none"
                 /\ req[r].provider = "none"
                 /\ (~req[r].disturbed => req[r].endCoins = req[r].startCoins)

C12_Witness ==
    \E r \in Reqs :
        /\ Purchase(r) /\ Done(r) /\ req[r].outcome = "insufficient"
        /\ req[r].userId \in Accounts
        /\ req[r].finalPrice > 0
        /\ req[r].profileCoins < req[r].finalPrice
        /\ balance[req[r].userId] = initial[req[r].userId]

\* C13: the provider's number call of a purchase is made only after that
\* purchase's debit write was applied: a purchase whose number call has been
\* answered has been debited.
C13_DebitBeforeAcquisition ==
    \A r \in Reqs :
        (Purchase(r) /\ req[r].provider # "none") => req[r].debited

\* C14: a purchase that obtained its number, with no other request writing
\* its account meanwhile, ends with the balance it started with minus the
\* quoted price, and has issued no refund write.
C14_SuccessKeepsDebit ==
    \A r \in Reqs :
        (GotNumber(r) /\ req[r].userId \in Accounts /\ ~req[r].disturbed)
        => /\ req[r].endCoins = req[r].startCoins - req[r].finalPrice
           /\ req[r].refunded = "none"

\* C15: a purchase that was debited and whose acquisition then failed (an
\* explicit failure answer or a thrown call) has had its refund write issued
\* on its own account by the time its failure response is sent, and an
\* applied refund on an account no other request wrote gives back the
\* amount debited.
C15_RefundBeforeFailureResponse ==
    \A r \in Reqs :
        ( /\ Purchase(r) /\ Done(r) /\ req[r].debited
          /\ req[r].provider \in {"fail", "throw"} )
        => /\ req[r].status = 500
           /\ req[r].refunded # "none"
           /\ (req[r].refunded = "applied" /\ ~req[r].disturbed)
                 => req[r].endCoins = req[r].startCoins

\* The request r lacks a field its handler is to require.
LacksField(r) ==
    \/ Purchase(r) /\ (req[r].service = "" \/ req[r].country = "" \/ req[r].userId = "")
    \/ Payment(r) /\ (req[r].reference = "" \/ req[r].userId = "")

\* C16: a purchase without service, country or account id, and a payment
\* credit without reference or account id, makes no account store call, no
\* provider call and no gateway call, and ends with a validation error.
C16_ValidationBeforeAnyCall ==
    \A r \in Reqs :
        LacksField(r)
        => /\ req[r].storeCalls = 0
           /\ req[r].priced = "none" /\ req[r].provider = "none"
           /\ req[r].gateway = "none"
           /\ Done(r) => req[r].outcome = "validation"

\* C17: a quote request and a purchase request for which the provider
\* reported no price end with the not-available outcome (404, not a server
\* error), with no account store call and no provider number call.
C17_NoPriceIsNotAvailable ==
    \A r \in Reqs :
        req[r].priced = "NA"
        => /\ Done(r)
           /\ req[r].outcome = "notAvailable" /\ req[r].status = 404
           /\ req[r].storeCalls = 0 /\ ~req[r].debited
           /\ req[r].provider = "none"

\* The quote request r was answered with a price.
Quoted(r) == req[r].kind = "getPrice" /\ Done(r) /\ req[r].outcome = "price"

\* The purchase r has computed its price.
Priced(r) ==
    /\ Purchase(r) /\ req[r].pc # "idle" /\ req[r].outcome # "validation"
    /\ (variant = "fixed" \/ req[r].priced = "price")

\* C18: every price quoted, and every price a purchase is charged, is at
\* least the provider's base price, in every version.
C18_QuoteCoversBasePrice ==
    \A r \in Reqs :
        (Quoted(r) \/ Priced(r)) => req[r].finalPrice >= catalogue

\* The versions whose policy is the multiplicative margin, and their factor
\* in tenths.
Multiplicative == variant \in {"m14", "m15a", "m15b"}
MarginTenths == IF variant = "m14" THEN PROFIT_MARGIN_14 ELSE PROFIT_MARGIN_15

\* q is the smallest whole number with q >= n / d.
IsCeilingOf(q, n, d) == q * d >= n /\ (q - 1) * d < n

\* C19: under the multiplicative policy a quote is the smallest whole number
\* of coins not below base * marginFactor (45 for base 30 and factor 1.5),
\* and the price a purchase is charged is the price the quote handler
\* answers for the same base price.
C19_MultiplicativeQuoteIsCeiling ==
    Multiplicative =>
        \A r \in Reqs :
            /\ Quoted(r) =>
                  /\ IsCeilingOf(req[r].finalPrice, catalogue * MarginTenths, 10)
                  /\ (catalogue = 30 /\ MarginTenths = 15) => req[r].finalPrice = 45
            /\ Priced(r) =>
                  /\ req[r].finalPrice = QuotePrice(variant, catalogue)
                  /\ IsCeilingOf(req[r].finalPrice, catalogue * MarginTenths, 10)

C19_Witness ==
    \E r1, r2 \in Reqs :
        /\ variant = "m15a" /\ catalogue = 30
        /\ Quoted(r1) /\ req[r1].finalPrice = 45
        /\ Priced(r2) /\ req[r2].finalPrice = 45

\* base * 0.011 lies in [4.95, 5.05], in exact arithmetic (thousandths).
InBandExactly(basePriceInRub) ==
    /\ basePriceInRub * RUB_TO_USD_RATE_MILLI >= 4950
    /\ basePriceInRub * RUB_TO_USD_RATE_MILLI <= 5050

\* C20: in the cross-currency version the price quoted and charged is
\* ceil(10000 / 15) coins when base * 0.011 lies in [4.95, 5.05], and
\* ceil((base * 0.011 * 1500 + 1500) / 15) coins for every other base price.
C20_BandQuoteIsPromoPrice ==
    variant = "chain" =>
        \A r \in Reqs :
            (Quoted(r) \/ Priced(r)) =>
                req[r].finalPrice =
                    IF InBandExactly(catalogue)
                    THEN CeilDiv(PROMO_PRICE_NGN, NGN_PER_COIN)
                    ELSE CeilDiv(catalogue * RUB_TO_USD_RATE_MILLI * USD_TO_NGN_CONVERSION_RATE
                                   + FIXED_PROFIT_NGN * 1000,
                                 NGN_PER_COIN * 1000)

StatusPoll(r) == req[r].kind = "getStatus"

\* C21: every step of a status poll leaves every balance and every other
\* request as they were and makes no account store call; the poll reports
\* the code exactly when the provider reported a received SMS, and Waiting
\* (200) while the provider reports waiting.
C21_StatusPollChangesNothing ==
    [][ \A r \in Reqs :
          (req'[r].kind = "getStatus" /\ req'[r] # req[r])
          => /\ balance' = balance
             /\ \A q \in Reqs \ {r} : req'[q] = req[q]
             /\ req'[r].storeCalls = 0
             /\ ~req'[r].debited /\ ~req'[r].credited
             /\ (req'[r].outcome = "code") <=> (req'[r].sms = "received")
             /\ req'[r].sms = "waiting" =>
                   (req'[r].outcome = "waiting" /\ req'[r].status = 200)
      ]_vars

C21_Witness ==
    \E r1, r2 \in Reqs :
        /\ StatusPoll(r1) /\ Done(r1) /\ req[r1].sms = "waiting"
        /\ req[r1].outcome = "waiting"
        /\ StatusPoll(r2) /\ Done(r2) /\ req[r2].sms = "received"
        /\ req[r2].outcome = "code" /\ req[r2].status = 200
        /\ balance = initial

\* C22: the message of every failure response is a string literal of the
\* handler: no text of the provider's answer, of the gateway or of a thrown
\* transport error is sent.
C22_FailureMessagesAreGeneric ==
    \A r \in Reqs :
        (Done(r) /\ req[r].status >= 400)
        => MessageSource(variant, req[r]) = "literal"

\* C23: a purchase or payment credit whose debit or credit write the store
\* answered with an error does not end on that attempt: it starts over from
\* the top (a second read and a second write, four store calls at least)
\* before it is answered.
C23_FailedWriteIsRetried ==
    \A r \in Reqs :
        ( /\ Purchase(r) \/ Payment(r)
          /\ Done(r) /\ req[r].writeError \in {"debit", "credit"} )
        => req[r].storeCalls >= 4

\* What the answer to r reports for its account: the coins of a credit
\* reported as applied, minus the price of a purchase reported as successful.
ReportedChange(r) ==
    CASE Payment(r) /\ Done(r) /\ req[r].outcome = "credited" -> req[r].coinsToAdd
      [] GotNumber(r)                                        -> 0 - req[r].finalPrice
      [] OTHER                                               -> 0

RECURSIVE SumReported(_, _)
SumReported(u, rs) ==
    IF rs = {} THEN 0
    ELSE LET r == CHOOSE x \in rs : TRUE
         IN  (IF req[r].userId = u THEN ReportedChange(r) ELSE 0)
               + SumReported(u, rs \ {r})

\* C24: once every request has been answered, with every write applied by
\* the store and every debited purchase successful, each account's balance
\* is its initial balance plus the credits reported as applied minus the
\* prices of the purchases reported as successful.  (Stated for the versions
\* that credit by select and update.)
C24_LedgerConservation ==
    ( /\ ReadThenWriteCredit
      /\ \A r \in Reqs :
            /\ Done(r) /\ req[r].writeError = "none"
            /\ req[r].debited => GotNumber(r) )
    => \A u \in Accounts : balance[u] = initial[u] + SumReported(u, Reqs)

\* C25: in the acquire-first versions a purchase is answered with a number
\* only if the store applied its debit write.
C25_NumberOnlyAfterAppliedDebit ==
    \A r \in Reqs :
        (AcquireFirst(variant) /\ GotNumber(r) /\ req[r].userId \in Accounts)
        => (req[r].debited /\ req[r].writeError = "none")

\* C26: a payment credit is answered with success only if the store applied
\* its write of old balance + N; when the store answered that write with an
\* error, the request ends with a failure response and the balance it found.
\* (Stated for the versions that credit by select and update.)
C26_CreditedOnlyAfterAppliedWrite ==
    \A r \in Reqs :
        (ReadThenWriteCredit /\ Payment(r) /\ Done(r))
        => /\ req[r].outcome = "credited" => req[r].credited
           /\ req[r].writeError = "credit" =>
                 /\ req[r].status >= 400
                 /\ ~req[r].disturbed => req[r].endCoins = req[r].startCoins

\* C27: in the debit-first versions a purchase whose debit write the store
\* answered with an error ends with a failure response (500) after its two
\* store calls, the read and that write: the provider is not asked for a
\* number, no refund write is issued, and the balance is the one it found
\* unless another request wrote it.
C27_DebitErrorStopsPurchase ==
    \A r \in Reqs :
        (DebitFirst(variant) /\ Purchase(r) /\ req[r].writeError = "debit")
        => /\ Done(r) /\ req[r].status = 500
           /\ req[r].provider = "none"
           /\ req[r].refunded = "none" /\ ~req[r].debited
           /\ req[r].storeCalls = 2
           /\ ~req[r].disturbed => req[r].endCoins = req[r].startCoins

C27_Witness ==
    \E r \in Reqs :
        /\ DebitFirst(variant) /\ Purchase(r) /\ Done(r)
        /\ req[r].writeError = "debit"
        /\ req[r].userId \in Accounts
        /\ req[r].profileCoins >= req[r].finalPrice /\ req[r].finalPrice > 0
        /\ balance[req[r].userId] = initial[req[r].userId]

\* C28: every purchase, status and payment-credit request sends exactly one
\* response: a request has never sent more than one, it has sent one exactly
\* when its handler has ended, and while it is in flight its handler has a
\* next step to take (each external call returns or throws), so that no path
\* ends without a response.
C28_ExactlyOneResponse ==
    \A r \in Reqs :
        (Purchase(r) \/ StatusPoll(r) \/ Payment(r))
        => /\ req[r].responses <= 1
           /\ Done(r) <=> req[r].responses = 1
           /\ InFlight(r) => ENABLED (GetNumber(r) \/ GetStatus(r) \/ VerifyPayment(r))

C28_Witness ==
    \E r1, r2 \in Reqs :
        /\ Purchase(r1) /\ Done(r1) /\ req[r1].responses = 1
        /\ req[r1].provider = "throw" /\ req[r1].status = 500
        /\ Payment(r2) /\ Done(r2) /\ req[r2].responses = 1
        /\ req[r2].status = 200

\* C29: when the lookup of the supplied account id returns an error or no
\* profile, the purchase handler writes no balance and asks the provider for
\* no number, the payment-credit handler writes no balance, and both end with
\* a failure response; the lookup is the request's only store call.
C29_FailedLookupStopsRequest ==
    \A r \in Reqs :
        ((Purchase(r) \/ Payment(r)) /\ req[r].lookup = "error")
        => /\ Done(r) /\ req[r].status >= 400
           /\ req[r].storeCalls = 1
           /\ ~req[r].debited /\ ~req[r].credited
           /\ req[r].refunded = "none" /\ req[r].writeError = "none"
           /\ req[r].provider = "none"
           /\ ~req[r].disturbed => req[r].endCoins = req[r].startCoins

C29_Witness ==
    \E r1, r2 \in Reqs :
        /\ Purchase(r1) /\ Done(r1) /\ req[r1].lookup = "error"
        /\ Payment(r2) /\ Done(r2) /\ req[r2].lookup = "error"
        /\ req[r2].coinsToAdd >= 1

\* The base prices up to the one the provider lists.
LowerBasePrices == {a \in QuoteBasePrices : a <= catalogue}

====
